---------------------------- MODULE Spec2Model ----------------------------
(***************************************************************************)
(* A model of src/src/main.rs: the command loop (main), the CSV loader     *)
(* (load_and_process_file) and the report engine (generate_reports).       *)
(*                                                                         *)
(* Text that the program parses (FundingYear, the two amounts, the two     *)
(* dates) is a sequence of one-character strings and is parsed character   *)
(* by character.  Text that the program only tests for emptiness and       *)
(* compares for equality (Region, MainIsland, Contractor, column names,    *)
(* file names) is a TLA+ string.                                           *)
(*                                                                         *)
(* An f64 is an exact rational n/d in lowest terms, or +inf, -inf or NaN.  *)
(* Rounding and the sign of zero are not modelled: the inputs used below   *)
(* are small integers, on which the program's arithmetic is exact up to    *)
(* the final divisions, and no input is "-0".                              *)
(***************************************************************************)
EXTENDS Integers, Sequences, FiniteSets, TLC

\* Option<T>: None, or Some(v).
None == [some |-> FALSE]
Some(v) == [some |-> TRUE, v |-> v]

---------------------------------------------------------------------------
(* Text and parsing                                                        *)

Digits == {"0", "1", "2", "3", "4", "5", "6", "7", "8", "9"}

DigitVal(c) ==
    CASE c = "0" -> 0 [] c = "1" -> 1 [] c = "2" -> 2 [] c = "3" -> 3
      [] c = "4" -> 4 [] c = "5" -> 5 [] c = "6" -> 6 [] c = "7" -> 7
      [] c = "8" -> 8 [] c = "9" -> 9

AllDigits(s) == \A i \in 1..Len(s) : s[i] \in Digits

\* The value of a sequence of decimal digits.
RECURSIVE DecValue(_)
DecValue(s) ==
    IF s = <<>> THEN 0
    ELSE 10 * DecValue(SubSeq(s, 1, Len(s) - 1)) + DigitVal(s[Len(s)])

Tail1(s) == SubSeq(s, 2, Len(s))

I32_MAX == 2147483647

\* The digits of s folded into acc as i32's from_str does, with checked
\* arithmetic: acc stays negative for negative text, so that i32::MIN parses.
RECURSIVE CheckedDigits(_, _, _)
CheckedDigits(s, acc, neg) ==
    IF s = <<>> THEN Some(acc)
    ELSE LET d == DigitVal(s[1])
             fits == IF neg
                     THEN -acc <= (I32_MAX - (IF d = 0 THEN 0 ELSE d - 1)) \div 10
                     ELSE acc <= (I32_MAX - d) \div 10
         IN  IF ~fits THEN None
             ELSE CheckedDigits(Tail1(s),
                                IF neg THEN 10 * acc - d ELSE 10 * acc + d, neg)

\* str::parse::<i32>: an optional sign, then one or more digits, no overflow.
ParseI32(s) ==
    LET neg == s # <<>> /\ s[1] = "-"
        body == IF s # <<>> /\ s[1] \in {"-", "+"} THEN Tail1(s) ELSE s
    IN  IF body = <<>> \/ ~AllDigits(body) THEN None
        ELSE CheckedDigits(body, 0, neg)

---------------------------------------------------------------------------
(* f64                                                                     *)

Abs(i) == IF i < 0 THEN -i ELSE i

RECURSIVE GCD(_, _)
GCD(a, b) == IF b = 0 THEN a ELSE GCD(b, a % b)

NaN == [k |-> "nan"]
PosInf == [k |-> "inf"]
NegInf == [k |-> "ninf"]

\* The finite value n/d (d # 0), in lowest terms with a positive denominator.
Fin(n, d) ==
    LET g == GCD(Abs(n), Abs(d))
        s == IF d < 0 THEN -1 ELSE 1
    IN  [k |-> "fin", n |-> (s * n) \div g, d |-> (s * d) \div g]

FromInt(i) == Fin(i, 1)

IsNaN(a) == a.k = "nan"
IsFin(a) == a.k = "fin"

\* -1, 0 or 1: the sign of a value that is not NaN.
Sign(a) ==
    CASE a.k = "inf" -> 1
      [] a.k = "ninf" -> -1
      [] a.k = "fin" -> IF a.n > 0 THEN 1 ELSE IF a.n < 0 THEN -1 ELSE 0

FNeg(a) ==
    CASE a.k = "nan" -> NaN
      [] a.k = "inf" -> NegInf
      [] a.k = "ninf" -> PosInf
      [] a.k = "fin" -> Fin(-a.n, a.d)

FAdd(a, b) ==
    CASE IsNaN(a) \/ IsNaN(b) -> NaN
      [] IsFin(a) /\ IsFin(b) -> Fin(a.n * b.d + b.n * a.d, a.d * b.d)
      [] IsFin(a) -> b
      [] IsFin(b) -> a
      [] OTHER -> IF a = b THEN a ELSE NaN

FSub(a, b) == FAdd(a, FNeg(b))

FMul(a, b) ==
    CASE IsNaN(a) \/ IsNaN(b) -> NaN
      [] IsFin(a) /\ IsFin(b) -> Fin(a.n * b.n, a.d * b.d)
      [] OTHER -> LET s == Sign(a) * Sign(b)
                  IN  IF s = 0 THEN NaN ELSE IF s > 0 THEN PosInf ELSE NegInf

FDiv(a, b) ==
    CASE IsNaN(a) \/ IsNaN(b) -> NaN
      [] IsFin(a) /\ IsFin(b) ->
            IF b.n # 0 THEN Fin(a.n * b.d, a.d * b.n)
            ELSE IF a.n = 0 THEN NaN
            ELSE IF a.n > 0 THEN PosInf ELSE NegInf
      [] IsFin(a) -> FromInt(0)
      [] IsFin(b) -> IF Sign(a) * (IF b.n < 0 THEN -1 ELSE 1) > 0
                     THEN PosInf ELSE NegInf
      [] OTHER -> NaN

\* f64::partial_cmp: "Less", "Equal", "Greater", or "None" when either is NaN.
PartialCmp(a, b) ==
    CASE IsNaN(a) \/ IsNaN(b) -> "None"
      [] IsFin(a) /\ IsFin(b) ->
            IF a.n * b.d < b.n * a.d THEN "Less"
            ELSE IF a.n * b.d > b.n * a.d THEN "Greater" ELSE "Equal"
      [] OTHER ->
            IF a = b THEN "Equal"
            ELSE IF a.k = "ninf" \/ b.k = "inf" THEN "Less" ELSE "Greater"

FLt(a, b) == PartialCmp(a, b) = "Less"
FGt(a, b) == PartialCmp(a, b) = "Greater"
FLe(a, b) == PartialCmp(a, b) \in {"Less", "Equal"}

\* f64::min and f64::max: when one argument is NaN the other is returned.
FMin(a, b) == IF IsNaN(a) THEN b ELSE IF IsNaN(b) THEN a
              ELSE IF FLt(b, a) THEN b ELSE a
FMax(a, b) == IF IsNaN(a) THEN b ELSE IF IsNaN(b) THEN a
              ELSE IF FGt(b, a) THEN b ELSE a

Lower(c) ==
    CASE c = "I" -> "i" [] c = "N" -> "n" [] c = "F" -> "f" [] c = "A" -> "a"
      [] c = "T" -> "t" [] c = "Y" -> "y" [] OTHER -> c

LowerAll(s) == [i \in 1..Len(s) |-> Lower(s[i])]

\* The index of the first "." of s, or 0.
RECURSIVE DotAt(_, _)
DotAt(s, i) ==
    IF i > Len(s) THEN 0 ELSE IF s[i] = "." THEN i ELSE DotAt(s, i + 1)

RECURSIVE Pow10(_)
Pow10(e) == IF e = 0 THEN 1 ELSE 10 * Pow10(e - 1)

\* str::parse::<f64> on text without an exponent: an optional sign, then
\* "inf", "infinity" or "nan" in any case, or digits with an optional point
\* and at least one digit.
ParseF64(s) ==
    LET neg == s # <<>> /\ s[1] = "-"
        body == IF s # <<>> /\ s[1] \in {"-", "+"} THEN Tail1(s) ELSE s
        low == LowerAll(body)
        dot == DotAt(body, 1)
        ip == IF dot = 0 THEN body ELSE SubSeq(body, 1, dot - 1)
        fp == IF dot = 0 THEN <<>> ELSE SubSeq(body, dot + 1, Len(body))
        mag == Fin(DecValue(ip \o fp), Pow10(Len(fp)))
    IN  IF low \in {<<"i", "n", "f">>, <<"i", "n", "f", "i", "n", "i", "t", "y">>}
          THEN Some(IF neg THEN NegInf ELSE PosInf)
        ELSE IF low = <<"n", "a", "n">> THEN Some(NaN)
        ELSE IF ip \o fp = <<>> \/ ~AllDigits(ip) \/ ~AllDigits(fp) THEN None
        ELSE Some(IF neg THEN FNeg(mag) ELSE mag)

---------------------------------------------------------------------------
(* Dates                                                                   *)

IsLeap(y) == (y % 4 = 0 /\ y % 100 # 0) \/ y % 400 = 0

DaysInMonth(y, m) ==
    IF m = 2 THEN (IF IsLeap(y) THEN 29 ELSE 28)
    ELSE IF m \in {4, 6, 9, 11} THEN 30 ELSE 31

RECURSIVE DaysBeforeMonth(_, _)
DaysBeforeMonth(y, m) ==
    IF m = 1 THEN 0 ELSE DaysBeforeMonth(y, m - 1) + DaysInMonth(y, m - 1)

\* A NaiveDate is its day number in the proleptic Gregorian calendar
\* (1 January of year 1 is day 1), so that a difference of two dates is
\* Duration::num_days.
DayNumber(y, m, d) ==
    365 * (y - 1) + ((y - 1) \div 4) - ((y - 1) \div 100) + ((y - 1) \div 400)
      + DaysBeforeMonth(y, m) + d

\* The index of the first "-" of s at or after i, or 0.
RECURSIVE DashAt(_, _)
DashAt(s, i) ==
    IF i > Len(s) THEN 0 ELSE IF s[i] = "-" THEN i ELSE DashAt(s, i + 1)

\* NaiveDate::parse_from_str(v, "%Y-%m-%d") on unsigned text: a year of one to
\* four digits, a month and a day of one or two digits, and a date that exists.
ParseDate(s) ==
    LET d1 == DashAt(s, 1)
        d2 == IF d1 = 0 THEN 0 ELSE DashAt(s, d1 + 1)
        ys == SubSeq(s, 1, d1 - 1)
        ms == SubSeq(s, d1 + 1, d2 - 1)
        ds == SubSeq(s, d2 + 1, Len(s))
        wellFormed ==
            /\ d1 # 0 /\ d2 # 0
            /\ Len(ys) \in 1..4 /\ Len(ms) \in 1..2 /\ Len(ds) \in 1..2
            /\ AllDigits(ys) /\ AllDigits(ms) /\ AllDigits(ds)
    IN  IF ~wellFormed THEN None
        ELSE LET y == DecValue(ys)
                 m == DecValue(ms)
                 d == DecValue(ds)
             IN  IF m \in 1..12 /\ d >= 1 /\ d <= DaysInMonth(y, m)
                 THEN Some(DayNumber(y, m, d))
                 ELSE None

---------------------------------------------------------------------------
(* State                                                                   *)

VARIABLES
    fs,             \* the input files: file name -> NoFile or a CSV file
    projects,       \* APP_STATE.projects, the record store
    pc,             \* main: "prompt" (at the top of the loop), "exited"
                    \* (main returned an Err) or "panicked"
    loads,          \* the number of load commands run so far
    lastCmd,        \* the command the loop ran last
    err,            \* the error that ended lastCmd, or "none"
    total_rows,     \* load_and_process_file's counters when it returned
    filtered_rows,
    error_count,
    noData,         \* generate_reports printed "No data loaded. ..."
    rows,           \* generate_reports: rows after the normalization pass
    report1,        \* the rows of Report 1 as displayed, in order
    csv1,           \* report_1_regional_summary.csv was written by lastCmd
    top_rows,       \* the rows of Report 2 as displayed, in order
    csv2            \* report_2_contractor_ranking.csv was written by lastCmd

vars == <<fs, projects, pc, loads, lastCmd, err, total_rows, filtered_rows,
          error_count, noData, rows, report1, csv1, top_rows, csv2>>

\* A path that csv::Reader::from_path cannot open.
NoFile == [exists |-> FALSE]

\* A CSV file: the set of its header's column names and its data rows.  A
\* row is [ok |-> FALSE] when the reader yields Err for it, and otherwise
\* holds the text of each column.
CsvFile(header, recs) == [exists |-> TRUE, header |-> header, recs |-> recs]

BadRecord == [ok |-> FALSE]

\* header.position(h).and_then(|i| record.get(i))
Field(header, rec, col) == IF col \in header THEN Some(rec[col]) ELSE None

\* Option::and_then with a parser.
ParsedI32(o) == IF o.some THEN ParseI32(o.v) ELSE None
ParsedF64(o) == IF o.some THEN ParseF64(o.v) ELSE None
ParsedDate(o) == IF o.some THEN ParseDate(o.v) ELSE None

FY_MIN == 2021
FY_MAX == 2023

\* The year filter with its lower bound off by one.
InFundingRangeFrom2020(y) == y >= FY_MIN - 1 /\ y <= FY_MAX

\* Some(y) if y >= 2021 && y <= 2023
InFundingRange(y) == y >= FY_MIN /\ y <= FY_MAX

\* Some(v) if !v.is_empty()
NonEmpty(o) == o.some /\ o.v # ""

---------------------------------------------------------------------------
(* load_and_process_file                                                   *)

\* One iteration of the loop over rdr.records(), after total_rows += 1:
\* "error" (error_count += 1; continue), "skip" (continue) or "accept"
\* with the Project that is pushed.
ProcessRecord(header, rec) ==
    IF ~rec.ok THEN [kind |-> "error"]
    ELSE
    LET fy == ParsedI32(Field(header, rec, "FundingYear"))
        region == Field(header, rec, "Region")
        main_island == Field(header, rec, "MainIsland")
        contractor == Field(header, rec, "Contractor")
        approved_budget ==
            ParsedF64(Field(header, rec, "ApprovedBudgetForContract"))
        contract_cost == ParsedF64(Field(header, rec, "ContractCost"))
        start_date == ParsedDate(Field(header, rec, "StartDate"))
        actual_completion_date ==
            ParsedDate(Field(header, rec, "ActualCompletionDate"))
    IN  IF ~fy.some THEN [kind |-> "error"]
        ELSE IF ~InFundingRange(fy.v) THEN [kind |-> "skip"]
        ELSE IF ~NonEmpty(region) THEN [kind |-> "error"]
        ELSE IF ~NonEmpty(main_island) THEN [kind |-> "error"]
        ELSE IF ~NonEmpty(contractor) THEN [kind |-> "error"]
        ELSE IF ~approved_budget.some THEN [kind |-> "error"]
        ELSE IF ~contract_cost.some THEN [kind |-> "error"]
        ELSE IF ~start_date.some THEN [kind |-> "error"]
        ELSE IF ~actual_completion_date.some THEN [kind |-> "error"]
        ELSE [kind |-> "accept",
              project |-> [region |-> region.v,
                           main_island |-> main_island.v,
                           contractor |-> contractor.v,
                           approved_budget |-> approved_budget.v,
                           contract_cost |-> contract_cost.v,
                           start_date |-> start_date.v,
                           actual_completion_date |-> actual_completion_date.v,
                           funding_year |-> fy.v]]

\* The iteration with filtered_rows counted before the year filter.
CountRecordBeforeFilter(st, r) ==
    LET seen == [st EXCEPT !.total_rows = @ + 1]
    IN  CASE r.kind = "error" -> [seen EXCEPT !.error_count = @ + 1]
          [] r.kind = "skip" -> [seen EXCEPT !.filtered_rows = @ + 1]
          [] r.kind = "accept" ->
                [seen EXCEPT !.filtered_rows = @ + 1,
                             !.projects = Append(@, r.project)]

\* What one iteration does to the store and the counters st, given the
\* outcome r of the record.
CountRecord(st, r) ==
    LET seen == [st EXCEPT !.total_rows = @ + 1]
    IN  CASE r.kind = "error" -> [seen EXCEPT !.error_count = @ + 1]
          [] r.kind = "skip" -> seen
          [] r.kind = "accept" ->
                [seen EXCEPT !.filtered_rows = @ + 1,
                             !.projects = Append(@, r.project)]

\* The loop over rdr.records() from record i on; st holds the store and the
\* three counters.
RECURSIVE ProcessRecords(_, _, _, _)
ProcessRecords(header, recs, i, st) ==
    IF i > Len(recs) THEN st
    ELSE ProcessRecords(header, recs, i + 1,
                        CountRecord(st, ProcessRecord(header, recs[i])))

\* The store and the counters when load_and_process_file returns Ok.
LoadFile(file, store) ==
    ProcessRecords(file.header, file.recs, 1,
                   [projects |-> store, total_rows |-> 0,
                    filtered_rows |-> 0, error_count |-> 0])

---------------------------------------------------------------------------
(* generate_reports: Report 1, the regional summary                        *)

DELAY_THRESHOLD_DAYS == 30
MIN_PROJECTS == 5
TOP_N == 5000
RISK_THRESHOLD == 50

Zero == FromInt(0)
Hundred == FromInt(100)

RECURSIVE SumF(_)
SumF(s) == IF s = <<>> THEN Zero ELSE FAdd(SumF(SubSeq(s, 1, Len(s) - 1)), s[Len(s)])

RECURSIVE SumInt(_)
SumInt(s) == IF s = <<>> THEN 0 ELSE SumInt(SubSeq(s, 1, Len(s) - 1)) + s[Len(s)]

\* x inserted into the ascending sequence s (no NaN among them).
RECURSIVE InsertAsc(_, _)
InsertAsc(s, x) ==
    IF s = <<>> THEN <<x>>
    ELSE IF FLt(x, s[Len(s)])
         THEN Append(InsertAsc(SubSeq(s, 1, Len(s) - 1), x), s[Len(s)])
         ELSE Append(s, x)

\* savings.sort_by(|a, b| a.partial_cmp(b).unwrap()), after the NaN are removed.
RECURSIVE SortAsc(_)
SortAsc(s) ==
    IF s = <<>> THEN <<>> ELSE InsertAsc(SortAsc(SubSeq(s, 1, Len(s) - 1)), s[Len(s)])

SavingsOf(p) == FSub(p.approved_budget, p.contract_cost)

\* The savings of the items, NaN removed, ascending.
SortedSavings(items) ==
    SortAsc(SelectSeq([i \in 1..Len(items) |-> SavingsOf(items[i])],
                      LAMBDA v : ~IsNaN(v)))

Median(savings) ==
    IF savings = <<>> THEN Zero
    ELSE IF Len(savings) % 2 = 1 THEN savings[(Len(savings) \div 2) + 1]
    ELSE LET mid == Len(savings) \div 2
         IN  FDiv(FAdd(savings[mid], savings[mid + 1]), FromInt(2))

\* The completion delay of a project in days, clamped at 0.
DelayOf(p) ==
    LET d == p.actual_completion_date - p.start_date
    IN  IF d < 0 THEN 0 ELSE d

Delays(items) == [i \in 1..Len(items) |-> DelayOf(items[i])]

AvgDelay(delays) ==
    IF delays = <<>> THEN Zero
    ELSE FDiv(FromInt(SumInt(delays)), FromInt(Len(delays)))

DelayOver30Pct(delays) ==
    IF delays = <<>> THEN Zero
    ELSE FDiv(FromInt(Len(SelectSeq(delays, LAMBDA d : d > DELAY_THRESHOLD_DAYS)) * 100),
              FromInt(Len(delays)))

RawEfficiency(median_savings, avg_delay) ==
    IF FGt(avg_delay, Zero)
    THEN FMul(FDiv(median_savings, avg_delay), Hundred)
    ELSE Zero

\* The keys of the HashMap grouped, and the Vec of one key.
RegionKeys(ps) == {<<ps[i].region, ps[i].main_island>> : i \in 1..Len(ps)}
RegionItems(ps, key) ==
    SelectSeq(ps, LAMBDA p : <<p.region, p.main_island>> = key)

\* The Row pushed for one group, with the raw efficiency as its score.
RegionRow(key, items) ==
    LET median_savings == Median(SortedSavings(items))
        avg_delay == AvgDelay(Delays(items))
    IN  [region |-> key[1],
         main_island |-> key[2],
         total_budget |-> SumF([i \in 1..Len(items) |-> items[i].approved_budget]),
         median_savings |-> median_savings,
         avg_delay |-> avg_delay,
         delay_over30_pct |-> DelayOver30Pct(Delays(items)),
         efficiency_score |-> RawEfficiency(median_savings, avg_delay)]

\* rows before the normalization pass.  The Vec is in the HashMap's
\* iteration order, which is arbitrary; keys are unique, so it is kept as a set.
RawRows(ps) == {RegionRow(key, RegionItems(ps, key)) : key \in RegionKeys(ps)}

\* rows.iter().map(|r| r.efficiency_score).reduce(f64::min), and max, for a
\* non-empty rows.  f64::min and f64::max skip NaN, so the order of the
\* reduction does not change the result.
RECURSIVE MinScore(_)
MinScore(rs) ==
    LET r == CHOOSE x \in rs : TRUE
    IN  IF rs = {r} THEN r.efficiency_score
        ELSE FMin(MinScore(rs \ {r}), r.efficiency_score)

RECURSIVE MaxScore(_)
MaxScore(rs) ==
    LET r == CHOOSE x \in rs : TRUE
    IN  IF rs = {r} THEN r.efficiency_score
        ELSE FMax(MaxScore(rs \ {r}), r.efficiency_score)

\* The score one row gets in the normalization pass.
NormalizedScore(score, min, max) ==
    IF FGt(max, min)
    THEN FMul(FDiv(FSub(score, min), FSub(max, min)), Hundred)
    ELSE Hundred

\* rows after the normalization pass.
Normalize(rs) ==
    IF rs = {} THEN {}
    ELSE LET min == MinScore(rs)
             max == MaxScore(rs)
         IN  {[r EXCEPT !.efficiency_score = NormalizedScore(@, min, max)] : r \in rs}

\* sort_by(|a, b| b.f.partial_cmp(&a.f).unwrap()) panics when it compares a
\* NaN, which it does as soon as there are two rows and one holds a NaN.
SortPanics(rs, f) == Cardinality(rs) >= 2 /\ \E r \in rs : IsNaN(r[f])

\* The orders sort_by can leave rs in, descending by field f: the sort is
\* stable, and rows that compare Equal stay in the HashMap's arbitrary order.
RECURSIVE DescOrders(_, _)
DescOrders(rs, f) ==
    IF rs = {} THEN {<<>>}
    ELSE LET tops == {r \in rs : \A q \in rs : q = r \/ FLe(q[f], r[f])}
         IN  UNION {{<<r>> \o t : t \in DescOrders(rs \ {r}, f)} : r \in tops}

---------------------------------------------------------------------------
(* generate_reports: Report 2, the contractor ranking                      *)

Contractors(ps) == {ps[i].contractor : i \in 1..Len(ps)}
ContractorItems(ps, c) == SelectSeq(ps, LAMBDA p : p.contractor = c)

\* The threshold with <= for <.
QualifiesAboveFive(items) == ~(Len(items) <= MIN_PROJECTS)

\* if items.len() < 5 { continue; }
Qualifies(items) == ~(Len(items) < MIN_PROJECTS)

RELIABILITY_DAYS == 90

ReliabilityIndex(avg_delay, total_savings, total_cost) ==
    LET raw == FMul(FMul(FSub(FromInt(1), FDiv(avg_delay, FromInt(RELIABILITY_DAYS))),
                         FDiv(total_savings, total_cost)),
                    Hundred)
    IN  IF FGt(raw, Hundred) THEN Hundred
        ELSE IF FLt(raw, Zero) THEN Zero
        ELSE raw

RiskFlag(reliability_index) ==
    IF FLt(reliability_index, FromInt(RISK_THRESHOLD)) THEN "High Risk" ELSE "Low Risk"

ContractorRow(c, items) ==
    LET total_cost == SumF([i \in 1..Len(items) |-> items[i].contract_cost])
        total_savings == SumF([i \in 1..Len(items) |-> SavingsOf(items[i])])
        avg_delay == AvgDelay(Delays(items))
        reliability_index == ReliabilityIndex(avg_delay, total_savings, total_cost)
    IN  [contractor |-> c,
         total_cost |-> total_cost,
         num_projects |-> Len(items),
         avg_delay |-> avg_delay,
         total_savings |-> total_savings,
         reliability_index |-> reliability_index,
         risk_flag |-> RiskFlag(reliability_index)]

\* contractor_rows before the sort, kept as a set like rows.
ContractorRows(ps) ==
    {ContractorRow(c, ContractorItems(ps, c)) :
        c \in {c \in Contractors(ps) : Qualifies(ContractorItems(ps, c))}}

\* contractor_rows.into_iter().take(5000)
Take(s, n) == SubSeq(s, 1, IF Len(s) < n THEN Len(s) ELSE n)

\* The rows as displayed and exported: each with its Rank, i + 1 for the
\* row at 0-based position i.
Ranked(s) ==
    [i \in 1..Len(s) |-> [rank |-> i,
                          contractor |-> s[i].contractor,
                          total_cost |-> s[i].total_cost,
                          num_projects |-> s[i].num_projects,
                          avg_delay |-> s[i].avg_delay,
                          total_savings |-> s[i].total_savings,
                          reliability_index |-> s[i].reliability_index,
                          risk_flag |-> s[i].risk_flag]]

---------------------------------------------------------------------------
(* generate_reports as a whole                                             *)

\* The emptiness test on a length that is never negative.
IsEmptyStoreNever(ps) == Len(ps) < 0

\* projects.is_empty()
IsEmptyStore(ps) == ps = <<>>

\* What generate_reports leaves behind when nothing has happened yet.
NoOutput ==
    [pc |-> "prompt", err |-> "none", noData |-> FALSE, rows |-> {},
     report1 |-> <<>>, csv1 |-> FALSE, top_rows |-> <<>>, csv2 |-> FALSE]

\* From the export of Report 1 on: st holds what was done before it, w1ok
\* and w2ok tell whether csv::Writer::from_path opens each output file.
ExportAndRank(ps, st, w1ok, w2ok) ==
    IF ~w1ok THEN {[st EXCEPT !.pc = "exited", !.err = "report1_open"]}
    ELSE LET wrote1 == [st EXCEPT !.csv1 = TRUE]
             contractor_rows == ContractorRows(ps)
         IN  IF SortPanics(contractor_rows, "total_cost")
             THEN {[wrote1 EXCEPT !.pc = "panicked", !.err = "sort_report2"]}
             ELSE {LET shown == [wrote1 EXCEPT !.top_rows = Ranked(Take(o, TOP_N))]
                   IN  IF w2ok THEN [shown EXCEPT !.csv2 = TRUE]
                       ELSE [shown EXCEPT !.pc = "exited", !.err = "report2_open"]
                   : o \in DescOrders(contractor_rows, "total_cost")}

\* The outcomes of generate_reports on the store ps.
RunReports(ps, w1ok, w2ok) ==
    IF IsEmptyStore(ps) THEN {[NoOutput EXCEPT !.noData = TRUE]}
    ELSE LET normalized == [NoOutput EXCEPT !.rows = Normalize(RawRows(ps))]
         IN  IF SortPanics(normalized.rows, "efficiency_score")
             THEN {[normalized EXCEPT !.pc = "panicked", !.err = "sort_report1"]}
             ELSE UNION {ExportAndRank(ps, [normalized EXCEPT !.report1 = o], w1ok, w2ok)
                         : o \in DescOrders(normalized.rows, "efficiency_score")}

---------------------------------------------------------------------------
(* main                                                                    *)
(*                                                                         *)
(* One action per arm of the match.  A command runs to its end in one      *)
(* step: the program is single-threaded.  The variables that hold what a   *)
(* command printed, counted or wrote are set by every command, so that     *)
(* they always describe the command that ran last.  Errors of stdin, and   *)
(* of a write to an output file that was opened, are not modelled: an      *)
(* output path that cannot be written fails when it is opened.             *)

MaxLoads == 5

\* "1" => load_and_process_file()?  The file name read from the prompt is
\* any name of fs.  A file that cannot be opened makes main return the Err.
Load ==
    /\ pc = "prompt"
    /\ loads < MaxLoads
    /\ \E filename \in DOMAIN fs :
          LET file == fs[filename]
              done == LoadFile(file, projects)
          IN  IF ~file.exists
              THEN /\ pc' = "exited"
                   /\ err' = "csv_open"
                   /\ UNCHANGED projects
                   /\ total_rows' = 0 /\ filtered_rows' = 0 /\ error_count' = 0
              ELSE /\ pc' = "prompt"
                   /\ err' = "none"
                   /\ projects' = done.projects
                   /\ total_rows' = done.total_rows
                   /\ filtered_rows' = done.filtered_rows
                   /\ error_count' = done.error_count
    /\ loads' = loads + 1
    /\ lastCmd' = "load"
    /\ noData' = FALSE /\ rows' = {} /\ report1' = <<>> /\ csv1' = FALSE
    /\ top_rows' = <<>> /\ csv2' = FALSE
    /\ UNCHANGED fs

\* "2" => generate_reports()?
GenerateReports ==
    /\ pc = "prompt"
    /\ \E w1ok \in BOOLEAN, w2ok \in BOOLEAN :
          \E out \in RunReports(projects, w1ok, w2ok) :
             /\ pc' = out.pc
             /\ err' = out.err
             /\ noData' = out.noData
             /\ rows' = out.rows
             /\ report1' = out.report1
             /\ csv1' = out.csv1
             /\ top_rows' = out.top_rows
             /\ csv2' = out.csv2
    /\ lastCmd' = "report"
    /\ total_rows' = 0 /\ filtered_rows' = 0 /\ error_count' = 0
    /\ UNCHANGED <<fs, projects, loads>>

\* _ => println!("Invalid choice. Please try again.")
InvalidChoice ==
    /\ pc = "prompt"
    /\ lastCmd' = "invalid"
    /\ err' = "none"
    /\ total_rows' = 0 /\ filtered_rows' = 0 /\ error_count' = 0
    /\ noData' = FALSE /\ rows' = {} /\ report1' = <<>> /\ csv1' = FALSE
    /\ top_rows' = <<>> /\ csv2' = FALSE
    /\ UNCHANGED <<fs, projects, pc, loads>>

Next == Load \/ GenerateReports \/ InvalidChoice

\* The state when main enters its loop, with the files fs on disk.
Start(files) ==
    /\ fs = files
    /\ projects = <<>>
    /\ pc = "prompt"
    /\ loads = 0
    /\ lastCmd = "none"
    /\ err = "none"
    /\ total_rows = 0 /\ filtered_rows = 0 /\ error_count = 0
    /\ noData = FALSE /\ rows = {} /\ report1 = <<>> /\ csv1 = FALSE
    /\ top_rows = <<>> /\ csv2 = FALSE

---------------------------------------------------------------------------
(* Input files                                                             *)

Columns ==
    {"FundingYear", "Region", "MainIsland", "Contractor",
     "ApprovedBudgetForContract", "ContractCost", "StartDate",
     "ActualCompletionDate"}

\* A record the reader yields Ok for.
Rec(fy, region, island, contractor, budget, cost, start, end) ==
    [ok |-> TRUE, FundingYear |-> fy, Region |-> region, MainIsland |-> island,
     Contractor |-> contractor, ApprovedBudgetForContract |-> budget,
     ContractCost |-> cost, StartDate |-> start, ActualCompletionDate |-> end]

Jan01 == <<"2", "0", "2", "1", "-", "0", "1", "-", "0", "1">>
Jan11 == <<"2", "0", "2", "1", "-", "0", "1", "-", "1", "1">>
Feb10 == <<"2", "0", "2", "1", "-", "0", "2", "-", "1", "0">>
Apr11 == <<"2", "0", "2", "1", "-", "0", "4", "-", "1", "1">>
Dec31 == <<"2", "0", "2", "0", "-", "1", "2", "-", "3", "1">>
Feb30 == <<"2", "0", "2", "1", "-", "0", "2", "-", "3", "0">>
Y2021 == <<"2", "0", "2", "1">>
Y2023 == <<"2", "0", "2", "3">>
Y2020 == <<"2", "0", "2", "0">>

\* A valid record: savings 20, delay 10 days.
BaseRec == Rec(Y2021, "R1", "Luzon", "A", <<"3", "0">>, <<"1", "0">>, Jan01, Jan11)

\* The records of the general specification: the valid record, records that
\* take an exit of the loader's loop (the files whose header lacks a column
\* take the others), and records that differ from the valid one in group,
\* amount or delay.
Records ==
    {BadRecord,
     BaseRec,
     [BaseRec EXCEPT !.FundingYear = Y2020],
     [BaseRec EXCEPT !.FundingYear = <<"2", "0", "x", "1">>],
     [BaseRec EXCEPT !.Region = ""],
     [BaseRec EXCEPT !.MainIsland = ""],
     [BaseRec EXCEPT !.Contractor = ""],
     [BaseRec EXCEPT !.ApprovedBudgetForContract = <<"i", "n", "f">>],
     [BaseRec EXCEPT !.ContractCost = <<"N", "a", "N">>],
     [BaseRec EXCEPT !.ActualCompletionDate = Feb30],
     [BaseRec EXCEPT !.FundingYear = Y2023, !.Region = "R2",
                     !.ActualCompletionDate = Feb10],
     [BaseRec EXCEPT !.Region = "R3", !.Contractor = "B",
                     !.ActualCompletionDate = Dec31]}

MaxRows == 2

\* The sequences over S of length at most n.
RECURSIVE SeqsUpTo(_, _)
SeqsUpTo(S, n) ==
    IF n = 0 THEN {<<>>}
    ELSE LET shorter == SeqsUpTo(S, n - 1)
         IN  shorter \cup {Append(q, x) : q \in {q \in shorter : Len(q) = n - 1}, x \in S}

\* The files of the general specification: every sequence of at most
\* MaxRows records under the full header, and the valid record under a
\* header that lacks one column.
Files ==
    {CsvFile(Columns, recs) : recs \in SeqsUpTo(Records, MaxRows)}
      \cup {CsvFile(Columns \ {c}, <<BaseRec>>) : c \in Columns}

Init == \E file \in Files :
            Start([data |-> file, missing |-> NoFile])

Spec == Init /\ [][Next]_vars

---------------------------------------------------------------------------
(* Input files for the contractor ranking                                  *)

\* The records of contractor A in the contractor specification: contract
\* cost 0 or 10, approved budget 0, 15 or 30, and a completion 1 day
\* before, 10 days after or 100 days after the start.
RecordsA ==
    {Rec(Y2021, "R1", "Luzon", "A", budget, cost, Jan01, end) :
        budget \in {<<"0">>, <<"1", "5">>, <<"3", "0">>},
        cost \in {<<"0">>, <<"1", "0">>},
        end \in {Dec31, Jan11, Apr11}}

RecordsB ==
    {Rec(Y2023, "R2", "Visayas", "B", <<"1", "5">>, <<"1", "0">>, Jan01, Jan11),
     Rec(Y2023, "R2", "Visayas", "B", <<"4", "0">>, <<"2", "0">>, Jan01, Feb10)}

\* Two files that hold 2 + 1 and 1 + 2 records of contractors A and B, so
\* that the loads of a run bring each contractor below, to and above 5.
InitContractor ==
    \E a \in RecordsA, b \in RecordsB :
        Start([a |-> CsvFile(Columns, <<a, a, b>>),
               b |-> CsvFile(Columns, <<a, b, b>>),
               missing |-> NoFile])

SpecContractor == InitContractor /\ [][Next]_vars

RankContractors == 16

DigitChar(d) ==
    CASE d = 0 -> "0" [] d = 1 -> "1" [] d = 2 -> "2" [] d = 3 -> "3"
      [] d = 4 -> "4" [] d = 5 -> "5" [] d = 6 -> "6" [] d = 7 -> "7"
      [] d = 8 -> "8" [] d = 9 -> "9"

\* The decimal text of a natural number.
RECURSIVE IntText(_)
IntText(i) ==
    IF i < 10 THEN <<DigitChar(i)>>
    ELSE Append(IntText(i \div 10), DigitChar(i % 10))

\* The record of contractor ToString(i), alone in region ToString(i): its
\* contract cost is 10 * i and its savings are i.
RankRec(i) ==
    Rec(Y2021, ToString(i), "Luzon", ToString(i), IntText(11 * i), IntText(10 * i),
        Jan01, Jan11)

\* A file with one record of each of RankContractors contractors, which
\* MIN_PROJECTS loads make qualify, and two small files.
InitRank ==
    Start([top |-> CsvFile(Columns, [i \in 1..RankContractors |-> RankRec(i)]),
           one |-> CsvFile(Columns, <<RankRec(1)>>),
           bad |-> CsvFile(Columns, <<BadRecord, [RankRec(2) EXCEPT !.FundingYear = Y2020]>>),
           missing |-> NoFile])

SpecRank == InitRank /\ [][Next]_vars

---------------------------------------------------------------------------
(* Properties                                                              *)

InUnitRange(x) == FLe(Zero, x) /\ FLe(x, Hundred)

\* The number of stored records of contractor c.
RecordCount(c) == Cardinality({i \in 1..Len(projects) : projects[i].contractor = c})

\* generate_reports got as far as displaying Report 2.
RankingShown ==
    lastCmd = "report" /\ ~noData /\ err \in {"none", "report2_open"}

\* The files of fs that can be opened.
Readable == {fs[n] : n \in {n \in DOMAIN fs : fs[n].exists}}

\* C1: after the normalization pass every regional row has an efficiency
\* score in [0, 100], and when all groups have the same raw efficiency every
\* score is exactly 100.
C1_EfficiencyInRange ==
    (lastCmd = "report" /\ ~noData) =>
        /\ \A r \in rows : InUnitRange(r.efficiency_score)
        /\ (\A a, b \in RawRows(projects) : a.efficiency_score = b.efficiency_score)
              => \A r \in rows : r.efficiency_score = Hundred

\* C2: every contractor ranking row has a reliability index in [0, 100], and
\* a contractor whose total cost is 0 gets reliability index 0 and the flag
\* "High Risk".
C2_ReliabilityInRange ==
    \A i \in DOMAIN top_rows :
        /\ InUnitRange(top_rows[i].reliability_index)
        /\ top_rows[i].total_cost = Zero =>
              /\ top_rows[i].reliability_index = Zero
              /\ top_rows[i].risk_flag = "High Risk"

\* C3: in a ranking that is displayed, every row's contractor has at least 5
\* stored records and numProjects is that count; and, when no more than
\* TOP_N contractors qualify, every contractor with at least 5 records has a row.
C3_MinimumProjects ==
    RankingShown =>
        /\ \A i \in DOMAIN top_rows :
              /\ top_rows[i].num_projects = RecordCount(top_rows[i].contractor)
              /\ top_rows[i].num_projects >= 5
        /\ LET qualifying == {c \in Contractors(projects) : RecordCount(c) >= 5}
           IN  Cardinality(qualifying) <= TOP_N =>
                  {top_rows[i].contractor : i \in DOMAIN top_rows} = qualifying

\* A ranking is displayed while one contractor has exactly 5 records, and a
\* row, and another has exactly 4, and none.
C3_Witness ==
    /\ RankingShown
    /\ \E i \in DOMAIN top_rows : top_rows[i].num_projects = 5
    /\ \E c \in Contractors(projects) :
          /\ RecordCount(c) = 4
          /\ \A i \in DOMAIN top_rows : top_rows[i].contractor # c

\* The records of a file whose FundingYear parses to a year outside [2021, 2023].
YearSkipped(file) ==
    {i \in 1..Len(file.recs) :
        /\ file.recs[i].ok
        /\ "FundingYear" \in file.header
        /\ ParseI32(file.recs[i].FundingYear).some
        /\ ParseI32(file.recs[i].FundingYear).v \notin 2021..2023}

\* The records of a file that pass every check of the loader.
ValidRecords(file) ==
    {i \in 1..Len(file.recs) :
        /\ file.recs[i].ok
        /\ file.header = Columns
        /\ ParseI32(file.recs[i].FundingYear).some
        /\ ParseI32(file.recs[i].FundingYear).v \in 2021..2023
        /\ file.recs[i].Region # ""
        /\ file.recs[i].MainIsland # ""
        /\ file.recs[i].Contractor # ""
        /\ ParseF64(file.recs[i].ApprovedBudgetForContract).some
        /\ ParseF64(file.recs[i].ContractCost).some
        /\ ParseDate(file.recs[i].StartDate).some
        /\ ParseDate(file.recs[i].ActualCompletionDate).some}

\* C4: every stored record has a funding year in [2021, 2023] and a
\* non-empty region, main island and contractor, and holds the parsed fields
\* of a record of an input file that passes every check of the loader.
C4_StoreValidated ==
    \A p \in {projects[i] : i \in 1..Len(projects)} :
        /\ p.funding_year \in 2021..2023
        /\ p.region # ""
        /\ p.main_island # ""
        /\ p.contractor # ""
        /\ \E file \in Readable : \E j \in ValidRecords(file) :
              /\ p.funding_year = ParseI32(file.recs[j].FundingYear).v
              /\ p.region = file.recs[j].Region
              /\ p.main_island = file.recs[j].MainIsland
              /\ p.contractor = file.recs[j].Contractor
              /\ p.approved_budget = ParseF64(file.recs[j].ApprovedBudgetForContract).v
              /\ p.contract_cost = ParseF64(file.recs[j].ContractCost).v
              /\ p.start_date = ParseDate(file.recs[j].StartDate).v
              /\ p.actual_completion_date =
                    ParseDate(file.recs[j].ActualCompletionDate).v

\* A second load of a file with one valid record and one record of funding
\* year 2020 has returned: the store holds two records.
C4_Witness ==
    /\ lastCmd = "load" /\ err = "none"
    /\ total_rows = 2 /\ filtered_rows = 1 /\ error_count = 0
    /\ Len(projects) = 2

\* C5: a load that returns has counted every record of its file in
\* total_rows, and total_rows = filtered_rows + error_count + the records
\* skipped for their year; the store has grown by exactly filtered_rows; and
\* a file of valid records only gives filtered_rows = total_rows and
\* error_count = 0.
C5_LoadCounts ==
    [][(lastCmd' = "load" /\ err' = "none" /\ loads' # loads) =>
          \E file \in Readable :
              /\ total_rows' = Len(file.recs)
              /\ total_rows' =
                    filtered_rows' + error_count' + Cardinality(YearSkipped(file))
              /\ Len(projects') = Len(projects) + filtered_rows'
              /\ SubSeq(projects', 1, Len(projects)) = projects
              /\ Cardinality(ValidRecords(file)) = Len(file.recs) =>
                    (filtered_rows' = total_rows' /\ error_count' = 0)]_vars

\* A second load of a file with one rejected and one valid record has
\* returned.
C5_Witness ==
    /\ lastCmd = "load" /\ err = "none" /\ loads = 2
    /\ total_rows = 2 /\ filtered_rows = 1 /\ error_count = 1
    /\ Len(projects) = 2

\* C6: a file-level error ends only the current operation: main is back at
\* its prompt and the store is as it was.
C6_FileErrorKeepsLoop ==
    [][(err' \in {"csv_open", "report1_open", "report2_open"} /\ pc = "prompt") =>
          (pc' = "prompt" /\ projects' = projects)]_vars

\* C7: a run of generate_reports has written both report files or neither.
C7_BothOrNeither ==
    lastCmd = "report" => (csv1 <=> csv2)

\* C8: generate_reports on an empty store prints the "no data" message,
\* computes no row, writes no file, returns to the prompt and leaves the
\* store empty.
C8_EmptyStoreReport ==
    (lastCmd = "report" /\ projects = <<>>) =>
        /\ noData
        /\ rows = {} /\ report1 = <<>> /\ top_rows = <<>>
        /\ ~csv1 /\ ~csv2
        /\ pc = "prompt" /\ err = "none"

\* generate_reports has run on a store that a load left empty.
C8_Witness ==
    lastCmd = "report" /\ projects = <<>> /\ loads > 0 /\ noData

\* C9: after a load that returns, the store holds exactly the records
\* accepted from that load's file.
C9_LoadReplaces ==
    (lastCmd = "load" /\ err = "none") =>
        \E file \in Readable : projects = LoadFile(file, <<>>).projects

TOP_TITLE == 15

\* C10: a displayed ranking has at most 15 rows, in non-increasing order of
\* total cost, no contractor left out costs more than one listed, and the
\* i-th row has Rank i.
C10_TopFifteen ==
    RankingShown =>
        /\ Len(top_rows) <= TOP_TITLE
        /\ \A i, j \in DOMAIN top_rows :
              i < j => FLe(top_rows[j].total_cost, top_rows[i].total_cost)
        /\ \A i \in DOMAIN top_rows : top_rows[i].rank = i
        /\ \A r \in ContractorRows(projects) :
              (\A i \in DOMAIN top_rows : top_rows[i].contractor # r.contractor) =>
                  \A i \in DOMAIN top_rows : FLe(r.total_cost, top_rows[i].total_cost)

=============================================================================
